---- MODULE Spec2Model ----
(***************************************************************************)
(* rodio, src/conversions/sample.rs: the Sample trait on i16 and u16       *)
(* (ZERO_VALUE, lerp, saturating_add, is_zero) and the DataConverter       *)
(* iterator adapter.  f32 is left out: it has no finite-state model.       *)
(*                                                                         *)
(* Integers keep the width the code gives them.  A u32 argument is the     *)
(* record [hi, lo] with value hi * 2^31 + lo, so that the cast `as i32`    *)
(* is a real conversion.  Arithmetic on i32 and i16 that leaves the type's *)
(* range panics when the build has overflow checks (debug) and wraps when  *)
(* it has none (release); the build is the variable overflow_checks.       *)
(***************************************************************************)
EXTENDS Integers, Sequences, FiniteSets

VARIABLES
    overflow_checks,  \* the build: TRUE = overflow panics, FALSE = overflow wraps
    enc,              \* the encoding under test: "i16" or "u16"
    first,            \* first sample argument (self)
    second,           \* second sample argument (other)
    denominator,      \* lerp: the u32 denominator
    numerator,        \* lerp: the u32 numerator of the latest call
    result,           \* outcome of the latest lerp / saturating_add call
    zero,             \* outcome of the latest is_zero call
    source,           \* DataConverter: the samples the innermost iterator was built from
    conv,             \* DataConverter: the adapter chain (converter over converter over iterator)
    yielded,          \* DataConverter: items returned so far by the outer converter's next()
    mid,              \* DataConverter: items returned so far by the inner converter's next()
    calls,            \* DataConverter: number of next() calls on the outer converter
    iter_calls,       \* DataConverter: number of next() calls that reached the innermost iterator
    ret               \* DataConverter: the latest call on the outer converter and what it returned

vars == <<overflow_checks, enc, first, second, denominator, numerator, result,
          zero, source, conv, yielded, mid, calls, iter_calls, ret>>

convVars == <<source, conv, yielded, mid, calls, iter_calls, ret>>

-----------------------------------------------------------------------------
(* Machine integers *)

I16Min == -32768
I16Max == 32767
U16Max == 65535
I32Max == 2147483647
I32Min == -I32Max - 1

\* Half-width of the neighbourhoods of boundary values the samples are drawn from.
SampleEdge == 1
\* Half-width of the neighbourhoods of boundary values numerators and denominators are drawn from.
RatioEdge == 1
\* Longest input sequence given to a DataConverter.
MaxLen == 2

Abs(x) == IF x < 0 THEN -x ELSE x
Min(x, y) == IF x <= y THEN x ELSE y
Max(x, y) == IF x <= y THEN y ELSE x

\* Option<T>
None == [some |-> FALSE, val |-> 0]
Some(v) == [some |-> TRUE, val |-> v]

\* The outcome of a call: a value, or a panic.
Ok(v) == [ok |-> TRUE, val |-> v]
Panic == [ok |-> FALSE, val |-> 0]
NotCalled == [ok |-> FALSE, val |-> -1]

\* A u32 value hi * 2^31 + lo.
U32(h, l) == [hi |-> h, lo |-> l]
U32Leq(x, y) == x.hi < y.hi \/ (x.hi = y.hi /\ x.lo <= y.lo)
U32IsZero(x) == x.hi = 0 /\ x.lo = 0

\* `x as i32` for x: u32 (two's complement reinterpretation).
u32_as_i32(x) == IF x.hi = 0 THEN x.lo ELSE (x.lo - I32Max) - 1

\* `x as u16` for x: i32.
i32_as_u16(x) == x % 65536

\* `x as i16` for x: i32.
i32_as_i16(x) == LET r == x % 65536 IN IF r > I16Max THEN r - 65536 ELSE r

\* `x as i16` for x: u16, and `x as u16` for x: i16 (bit reinterpretation).
u16_as_i16(x) == IF x > I16Max THEN x - 65536 ELSE x
i16_as_u16(x) == x % 65536

\* Whether the exact product of two i32 values is an i32.
MulFits(x, y) ==
    IF x = 0 \/ y = 0 THEN TRUE
    ELSE IF x = I32Min THEN y = 1
    ELSE IF y = I32Min THEN x = 1
    ELSE LET ax == Abs(x)
             ay == Abs(y)
         IN  IF (x > 0) = (y > 0)
             THEN ay <= I32Max \div ax
             ELSE \/ ax = 1
                  \/ ay <= (I32Max \div ax) + (IF I32Max % ax = ax - 1 THEN 1 ELSE 0)

\* The 32-bit product of two 16-bit limbs, as its two 16-bit halves.
Mul16(a, b) ==
    LET p1 == (a \div 256) * b
        p0 == (a % 256) * b
        l  == (p1 % 256) * 256 + p0
    IN  [hi |-> (p1 \div 256) + (l \div 65536), lo |-> l % 65536]

\* i32::wrapping_mul: the product modulo 2^32, read as an i32.
WrapMul(x, y) ==
    LET xl == x % 65536
        xh == (x \div 65536) % 65536
        yl == y % 65536
        yh == (y \div 65536) % 65536
        ll == Mul16(xl, yl)
        h  == (ll.hi + Mul16(xh, yl).lo + Mul16(xl, yh).lo) % 65536
    IN  IF h > I16Max THEN (h - 65536) * 65536 + ll.lo ELSE h * 65536 + ll.lo

\* x * y on i32.
MulI32(x, y, checks) ==
    IF MulFits(x, y) THEN Ok(x * y)
    ELSE IF checks THEN Panic
    ELSE Ok(WrapMul(x, y))

\* x / y on i32: truncates toward zero; panics on y = 0 and on i32::MIN / -1 in every build.
DivI32(x, y) ==
    IF y = 0 THEN Panic
    ELSE IF x = I32Min /\ y = -1 THEN Panic
    ELSE IF y = I32Min THEN Ok(IF x = I32Min THEN 1 ELSE 0)
    ELSE LET ay == Abs(y)
             q  == x \div ay
             t  == IF x < 0 /\ x % ay # 0 THEN q + 1 ELSE q
         IN  Ok(IF y < 0 THEN -t ELSE t)

\* x + y on i32.
AddI32(x, y, checks) ==
    IF x > 0 /\ y > I32Max - x
    THEN IF checks THEN Panic ELSE Ok(((x - I32Max) + (y - I32Max)) - 2)
    ELSE IF x < 0 /\ y < I32Min - x
    THEN IF checks THEN Panic ELSE Ok(((x + I32Max) + (y + I32Max)) + 2)
    ELSE Ok(x + y)

\* x + y on i16.
AddI16(x, y, checks) ==
    IF x + y > I16Max \/ x + y < I16Min
    THEN IF checks THEN Panic ELSE Ok(i32_as_i16(x + y))
    ELSE Ok(x + y)

-----------------------------------------------------------------------------
(* impl Sample for u16 / i16 :: lerp *)

\* Mutant of LerpI32: divides before it multiplies, first + (second - first) / d * n.
LerpI32_div_first(a, b, n, d, checks) ==
    LET q == DivI32(b - a, d)
    IN  IF ~q.ok THEN Panic
        ELSE LET m == MulI32(q.val, n, checks)
             IN  IF ~m.ok THEN Panic ELSE AddI32(a, m.val, checks)

\* first + (second - first) * n / d on i32, left to right as Rust evaluates it.
LerpI32(a, b, n, d, checks) ==
    LET m == MulI32(b - a, n, checks)
    IN  IF ~m.ok THEN Panic
        ELSE LET q == DivI32(m.val, d)
             IN  IF ~q.ok THEN Panic ELSE AddI32(a, q.val, checks)

lerp_u16(a, b, n, d, checks) ==
    LET r == LerpI32(a, b, u32_as_i32(n), u32_as_i32(d), checks)
    IN  IF r.ok THEN Ok(i32_as_u16(r.val)) ELSE Panic

lerp_i16(a, b, n, d, checks) ==
    LET r == LerpI32(a, b, u32_as_i32(n), u32_as_i32(d), checks)
    IN  IF r.ok THEN Ok(i32_as_i16(r.val)) ELSE Panic

lerp(e, a, b, n, d, checks) ==
    IF e = "u16" THEN lerp_u16(a, b, n, d, checks) ELSE lerp_i16(a, b, n, d, checks)

-----------------------------------------------------------------------------
(* dasp_sample, as the Sample trait uses it *)

Encodings == {"i16", "u16"}
Other(e) == IF e = "i16" THEN "u16" ELSE "i16"

\* DaspSample::EQUILIBRIUM of u16.
U16Equilibrium == 32768

EQUILIBRIUM(e) == IF e = "u16" THEN U16Equilibrium ELSE 0

\* Mutant of i16_to_u16: offsets by u16::MAX / 2 instead of 32768.
i16_to_u16_max_half(s) == i16_as_u16(s) + 32767

\* FromSample<i16> for u16:
\*   if s < 0 { (s + 32_767 + 1) as u16 } else { s as u16 + 32_768 }
i16_to_u16(s) == IF s < 0 THEN i16_as_u16(s + 32767 + 1) ELSE i16_as_u16(s) + 32768

\* Mutant of u16_to_i16: a bare `s as i16`.
u16_to_i16_cast(s) == u16_as_i16(s)

\* FromSample<u16> for i16:
\*   if s >= 32_768 { (s - 32_768) as i16 } else { (s as i16) - 32_767 - 1 }
u16_to_i16(s) == IF s >= 32768 THEN u16_as_i16(s - 32768) ELSE u16_as_i16(s) - 32767 - 1

\* DaspSample::from_sample::<to>(s) for s of encoding from.
from_sample(from, to, s) ==
    IF from = to THEN s
    ELSE IF from = "i16" THEN i16_to_u16(s)
    ELSE u16_to_i16(s)

\* DaspSample::to_signed_sample: Signed = i16 for both encodings.
to_signed_sample(e, s) == from_sample(e, "i16", s)

\* DaspSample::add_amp: (self.to_signed_sample() + amp).to_sample(), `+` being i16's.
add_amp(e, self, amp, checks) ==
    LET r == AddI16(to_signed_sample(e, self), amp, checks)
    IN  IF r.ok THEN Ok(from_sample("i16", e, r.val)) ELSE Panic

-----------------------------------------------------------------------------
(* trait Sample *)

\* Mutant of ZERO_VALUE: the value the trait's documentation names.
ZERO_VALUE_max_half(e) == IF e = "u16" THEN U16Max \div 2 ELSE 0

ZERO_VALUE(e) == EQUILIBRIUM(e)

\* Silence as the trait's documentation gives it: 0 for i16, u16::max_value() / 2 for u16.
DocSilence(e) == IF e = "u16" THEN U16Max \div 2 ELSE 0

saturating_add(e, self, other, checks) == add_amp(e, self, to_signed_sample(e, other), checks)

is_zero(e, self) == self = ZERO_VALUE(e)

-----------------------------------------------------------------------------
(* struct DataConverter<I, O> *)

\* The innermost iterator, a std::vec::IntoIter over the remaining samples.
Iter(items) == [kind |-> "iter", items |-> items]

Iter_next(it) ==
    IF it.items = <<>>
    THEN [item |-> None, self |-> it, adv |-> 1, trace |-> <<None>>]
    ELSE [item |-> Some(Head(it.items)), self |-> Iter(Tail(it.items)), adv |-> 1,
          trace |-> <<Some(Head(it.items))>>]

Iter_size_hint(it) == <<Len(it.items), Some(Len(it.items))>>

\* Mutant of DataConverter_new: pulls the first sample ahead of demand.
DataConverter_new_prefetch(input, from, to) ==
    [kind |-> "conv", from |-> from, to |-> to,
     input |-> IF input.kind = "iter" /\ input.items # <<>> THEN [input EXCEPT !.items = Tail(@)]
               ELSE input]

\* DataConverter::new; from is I::Item, to is the PhantomData<O>.
DataConverter_new(input, from, to) == [kind |-> "conv", input |-> input, from |-> from, to |-> to]

\* Option::map(|s| DaspSample::from_sample(s))
OptionMap(o, from, to) == IF o.some THEN Some(from_sample(from, to, o.val)) ELSE None

\* DataConverter::next.  adv counts the calls that reached the innermost iterator and
\* trace lists what each level returned, innermost first.
RECURSIVE DataConverter_next(_)
DataConverter_next(self) ==
    LET r == IF self.input.kind = "iter" THEN Iter_next(self.input)
             ELSE DataConverter_next(self.input)
        o == OptionMap(r.item, self.from, self.to)
    IN  [item |-> o, self |-> [self EXCEPT !.input = r.self], adv |-> r.adv,
         trace |-> Append(r.trace, o)]

\* Mutant of DataConverter_size_hint: Iterator's default, nothing forwarded.
DataConverter_size_hint_default(self) == <<0, None>>

\* DataConverter::size_hint
RECURSIVE DataConverter_size_hint(_)
DataConverter_size_hint(self) ==
    IF self.input.kind = "iter" THEN Iter_size_hint(self.input)
    ELSE DataConverter_size_hint(self.input)

\* DataConverter::into_inner and DataConverter::inner_mut
into_inner(self) == self.input
inner_mut(self) == self.input

-----------------------------------------------------------------------------
(* Inputs *)

Near(p, w) == (p - w) .. (p + w)

SamplesOf(e) ==
    IF e = "i16"
    THEN (Near(I16Min, SampleEdge) \cup Near(0, SampleEdge) \cup Near(I16Max, SampleEdge))
             \cap (I16Min .. I16Max)
    ELSE (Near(0, SampleEdge) \cup Near(U16Equilibrium, SampleEdge) \cup Near(U16Max, SampleEdge))
             \cap (0 .. U16Max)

\* u32 arguments: small values, and values around 5000, 2^16, 2^31 and u32::MAX.
Ratios ==
    {U32(0, l) : l \in (0 .. 2 + RatioEdge) \cup Near(5000, RatioEdge) \cup Near(65536, RatioEdge)}
        \cup {U32(0, I32Max - k) : k \in 0 .. RatioEdge - 1}
        \cup {U32(1, l) : l \in 0 .. RatioEdge}
        \cup {U32(1, I32Max - k) : k \in 0 .. RatioEdge}

RECURSIVE SeqsUpTo(_, _)
SeqsUpTo(S, n) ==
    IF n = 0 THEN {<<>>}
    ELSE LET shorter == SeqsUpTo(S, n - 1)
         IN  shorter \cup {Append(q, x) : q \in {t \in shorter : Len(t) = n - 1}, x \in S}


\* What a call returned: next() an Option, size_hint() a pair, into_inner() and inner_mut()
\* the converter's input (here followed down to the innermost iterator).
NoRet == [op |-> "new", item |-> None, hint |-> <<0, None>>, inner |-> Iter(<<>>)]
RetNext(o) == [NoRet EXCEPT !.op = "next", !.item = o]
RetSizeHint(h) == [NoRet EXCEPT !.op = "size_hint", !.hint = h]
RetInner(op, i) == [NoRet EXCEPT !.op = op, !.inner = i]

IdleLerp ==
    /\ denominator = U32(0, 1)
    /\ numerator = U32(0, 0)

IdleConv ==
    /\ source = <<>>
    /\ conv = Iter(<<>>)
    /\ yielded = <<>>
    /\ mid = <<>>
    /\ calls = 0
    /\ iter_calls = 0
    /\ ret = NoRet

-----------------------------------------------------------------------------
(* Sample::lerp called repeatedly on one pair of samples and one denominator *)

InitLerp ==
    /\ overflow_checks \in BOOLEAN
    /\ enc \in Encodings
    /\ first \in SamplesOf(enc)
    /\ second \in SamplesOf(enc)
    /\ denominator \in Ratios
    /\ numerator = U32(0, 0)
    /\ result = NotCalled
    /\ zero = None
    /\ IdleConv

Lerp(n) ==
    /\ result # Panic
    /\ numerator' = n
    /\ result' = lerp(enc, first, second, n, denominator, overflow_checks)
    /\ UNCHANGED <<overflow_checks, enc, first, second, denominator, zero>>
    /\ UNCHANGED convVars

NextLerp == \E n \in Ratios : Lerp(n)

SpecLerp == InitLerp /\ [][NextLerp]_vars

-----------------------------------------------------------------------------
(* Sample::saturating_add and Sample::is_zero *)

InitSample ==
    /\ overflow_checks \in BOOLEAN
    /\ enc \in Encodings
    /\ first \in SamplesOf(enc)
    /\ second \in SamplesOf(enc)
    /\ result = NotCalled
    /\ zero = None
    /\ IdleLerp
    /\ IdleConv

SaturatingAdd ==
    /\ result = NotCalled
    /\ result' = saturating_add(enc, first, second, overflow_checks)
    /\ UNCHANGED <<overflow_checks, enc, first, second, denominator, numerator, zero>>
    /\ UNCHANGED convVars

IsZero ==
    /\ result # Panic
    /\ zero = None
    /\ zero' = Some(is_zero(enc, first))
    /\ UNCHANGED <<overflow_checks, enc, first, second, result>>
    /\ UNCHANGED <<denominator, numerator>>
    /\ UNCHANGED convVars

NextSample == SaturatingAdd \/ IsZero

SpecSample == InitSample /\ [][NextSample]_vars

-----------------------------------------------------------------------------
(* A DataConverter<DataConverter<IntoIter, O>, I> pulled sample by sample *)

\* Calls of next() allowed after the input is exhausted.
ExtraCalls == 1

InitConv ==
    /\ overflow_checks \in BOOLEAN
    /\ enc \in Encodings
    /\ first = ZERO_VALUE(enc)
    /\ second = ZERO_VALUE(enc)
    /\ result = NotCalled
    /\ zero = None
    /\ IdleLerp
    /\ source \in SeqsUpTo(SamplesOf(enc), MaxLen)
    /\ conv = DataConverter_new(DataConverter_new(Iter(source), enc, Other(enc)), Other(enc), enc)
    /\ yielded = <<>>
    /\ mid = <<>>
    /\ calls = 0
    /\ iter_calls = 0
    /\ ret = NoRet

ConvNext ==
    /\ ret.op # "into_inner"
    /\ calls < Len(source) + ExtraCalls
    /\ LET r == DataConverter_next(conv)
       IN  /\ conv' = r.self
           /\ ret' = RetNext(r.item)
           /\ yielded' = IF r.item.some THEN Append(yielded, r.item.val) ELSE yielded
           /\ mid' = IF r.trace[2].some THEN Append(mid, r.trace[2].val) ELSE mid
           /\ iter_calls' = iter_calls + r.adv
    /\ calls' = calls + 1
    /\ UNCHANGED <<overflow_checks, enc, first, second, result, zero, source>>
    /\ UNCHANGED <<denominator, numerator>>

ConvSizeHint ==
    /\ ret.op # "into_inner"
    /\ ret' = RetSizeHint(DataConverter_size_hint(conv))
    /\ UNCHANGED <<overflow_checks, enc, first, second, result, zero>>
    /\ UNCHANGED <<denominator, numerator>>
    /\ UNCHANGED <<source, conv, yielded, mid, calls, iter_calls>>

ConvInnerMut ==
    /\ ret.op # "into_inner"
    /\ ret' = RetInner("inner_mut", inner_mut(inner_mut(conv)))
    /\ UNCHANGED <<overflow_checks, enc, first, second, result, zero>>
    /\ UNCHANGED <<denominator, numerator>>
    /\ UNCHANGED <<source, conv, yielded, mid, calls, iter_calls>>

\* into_inner consumes the converter: nothing can be called on it afterwards.
ConvIntoInner ==
    /\ ret.op # "into_inner"
    /\ ret' = RetInner("into_inner", into_inner(into_inner(conv)))
    /\ UNCHANGED <<overflow_checks, enc, first, second, result, zero>>
    /\ UNCHANGED <<denominator, numerator>>
    /\ UNCHANGED <<source, conv, yielded, mid, calls, iter_calls>>

NextConv == ConvNext \/ ConvSizeHint \/ ConvInnerMut \/ ConvIntoInner

SpecConv == InitConv /\ [][NextConv]_vars

-----------------------------------------------------------------------------
(* Properties of lerp (SpecLerp) *)

Called == result # NotCalled
RangeOf(e) == IF e = "u16" THEN 0 .. U16Max ELSE I16Min .. I16Max

\* (second - first) * d, over the integers, is an i32 (and d itself is one unless the
\* product is zero).
EndpointFits(a, b, d) == a = b \/ (d.hi = 0 /\ MulFits(b - a, d.lo))

\* C1 as stated: for every denominator d in 1 .. u32::MAX, lerp(a, b, 0, d) = a and
\* lerp(a, b, d, d) = b, in both encodings and both builds.
C1_Endpoints ==
    (Called /\ ~U32IsZero(denominator)) =>
        /\ U32IsZero(numerator) => result = Ok(first)
        /\ numerator = denominator => result = Ok(second)

\* C1 amended: lerp(a, b, 0, d) = a for every d in 1 .. u32::MAX, and lerp(a, b, d, d) = b
\* for every such d for which second = first, or d <= i32::MAX and (second - first) * d
\* is an i32.
C1_EndpointsWithinI32 ==
    (Called /\ ~U32IsZero(denominator)) =>
        /\ U32IsZero(numerator) => result = Ok(first)
        /\ (numerator = denominator /\ EndpointFits(first, second, denominator))
               => result = Ok(second)

\* A call lerp(a, b, 65536, 65536) with a # b whose product fits, returning b.
C1_Witness ==
    /\ Called
    /\ numerator = denominator
    /\ denominator = U32(0, 65536)
    /\ first # second
    /\ EndpointFits(first, second, denominator)
    /\ result = Ok(second)

RECURSIVE Gcd(_, _)
Gcd(x, y) == IF y = 0 THEN x ELSE Gcd(y, x % y)

\* n / d is in lowest terms, for n <= 5000 (d mod n is computed on the halves of d).
LowestTerms(n, d) ==
    IF n.lo = 0 THEN d = U32(0, 1)
    ELSE LET m == n.lo
             r == (d.hi * (((1073741824 % m) * 2) % m) + (d.lo % m)) % m
         IN  Gcd(m, r) = 1

\* |d * y - p| < d over the integers, i.e. y - 1 < p / d < y + 1, for |p| < 2^31 <= 2 * d
\* computed without leaving 32 bits: p / d is within one of y exactly when y is the floor or
\* the ceiling of p / d.
WithinOne(y, p, d) ==
    IF d.hi = 1
    THEN IF p = 0 THEN y = 0 ELSE IF p > 0 THEN y \in {0, 1} ELSE y \in {-1, 0}
    ELSE IF p % d.lo = 0 THEN y = p \div d.lo
    ELSE y \in {p \div d.lo, (p \div d.lo) + 1}

\* C2: for u16 samples and every fraction n / d in lowest terms with d > 0, n / d <= 1 and
\* n <= 5000, x = lerp(first, second, n, d) is within 1 of first + (second - first) * n / d:
\* |d * x - (first * d + (second - first) * n)| < d.
C2_Accuracy ==
    (/\ Called
     /\ enc = "u16"
     /\ ~U32IsZero(denominator)
     /\ U32Leq(numerator, denominator)
     /\ U32Leq(numerator, U32(0, 5000))
     /\ LowestTerms(numerator, denominator))
        => /\ result.ok
           /\ WithinOne(result.val - first, (second - first) * numerator.lo, denominator)

\* (second - first) * n, over the integers, is an i32.
NumeratorFits(a, b, n) == n.hi = 0 /\ MulFits(b - a, n.lo)

\* C9: for d > 0 and numerators n1 <= n2 <= d with (b - a) * n2 an i32, two calls that
\* return satisfy lerp(n1) <= lerp(n2) if a <= b and lerp(n1) >= lerp(n2) if a >= b; both
\* results lie between min(a, b) and max(a, b) and the cast back to the encoding keeps the
\* i32 value.
C9_Monotonic ==
    [][(/\ result.ok
        /\ result'.ok
        /\ ~U32IsZero(denominator)
        /\ U32Leq(numerator, numerator')
        /\ U32Leq(numerator', denominator)
        /\ NumeratorFits(first, second, numerator'))
           => /\ first <= second => result.val <= result'.val
              /\ first >= second => result.val >= result'.val
              /\ result.val \in Min(first, second) .. Max(first, second)
              /\ result'.val \in Min(first, second) .. Max(first, second)
              /\ LerpI32(first, second, u32_as_i32(numerator'), u32_as_i32(denominator),
                         overflow_checks).val \in RangeOf(enc)]_vars

-----------------------------------------------------------------------------
(* Properties of saturating_add and is_zero (SpecSample) *)

Clamp(x, lo, hi) == Min(hi, Max(lo, x))

\* C3: saturating_add returns the sum clamped to the encoding's range, min(i16::MAX,
\* max(i16::MIN, a + b)) for i16 and the clamp to [0, u16::MAX] of the sum of the amplitudes
\* around the u16 zero value for u16, and never overflows, wraps or panics.
C3_SaturatingAddClamps ==
    Called =>
        result = Ok(IF enc = "i16" THEN Clamp(first + second, I16Min, I16Max)
                    ELSE Clamp(ZERO_VALUE("u16") + (first - ZERO_VALUE("u16"))
                                   + (second - ZERO_VALUE("u16")), 0, U16Max))

\* C10: a.saturating_add(ZERO_VALUE) = a and ZERO_VALUE.saturating_add(a) = a for every
\* sample a of either encoding.
C10_SilenceIsIdentity ==
    Called =>
        /\ second = ZERO_VALUE(enc) => result = Ok(first)
        /\ first = ZERO_VALUE(enc) => result = Ok(second)

\* A u16 sample other than silence to which silence was added.
C10_Witness ==
    /\ enc = "u16"
    /\ second = ZERO_VALUE(enc)
    /\ first # ZERO_VALUE(enc)
    /\ result = Ok(first)

\* C8: ZERO_VALUE is 0 for i16 and u16::max_value() / 2 for u16, and is_zero(s) is true
\* exactly when s is that value.
C8_DocumentedSilence ==
    zero.some =>
        /\ ZERO_VALUE(enc) = DocSilence(enc)
        /\ zero.val = (first = DocSilence(enc))

-----------------------------------------------------------------------------
(* Properties of DataConverter (SpecConv) *)

\* Samples the inner iterator has given up after the calls made so far.
Consumed == Min(calls, Len(source))
Remaining == SubSeq(source, Consumed + 1, Len(source))

\* C4: the converter yields one item per input sample, the i-th the conversion of the i-th
\* sample; next() returns None exactly when the inner iterator does; size_hint() is the
\* inner iterator's at every point.
C4_SequenceShape ==
    /\ Len(mid) = Consumed
    /\ Len(yielded) = Consumed
    /\ \A i \in 1 .. Len(mid) : mid[i] = from_sample(enc, Other(enc), source[i])
    /\ \A i \in 1 .. Len(yielded) : yielded[i] = from_sample(Other(enc), enc, mid[i])
    /\ ret.op = "next" =>
           /\ ret.item.some = (calls <= Len(source))
           /\ ret.item.some => ret.item = Some(yielded[calls])
    /\ ret.op = "size_hint" => ret.hint = Iter_size_hint(Iter(Remaining))

\* Two different samples converted in order, then None from the exhausted input.
C4_Witness ==
    /\ Len(source) = 2
    /\ source[1] # source[2]
    /\ calls = 3
    /\ ret = RetNext(None)
    /\ Len(yielded) = 2

\* C5: after k calls of next() the inner iterator has been advanced exactly k times, and
\* what into_inner() or inner_mut() hands out starts at the first sample not yet returned.
C5_Lazy ==
    /\ iter_calls = calls
    /\ conv.input.input = Iter(Remaining)
    /\ ret.op \in {"into_inner", "inner_mut"} => ret.inner = Iter(Remaining)

\* into_inner() after one call of next() on a two-sample input: one sample is left.
C5_Witness ==
    /\ ret.op = "into_inner"
    /\ calls = 1
    /\ Len(source) = 2
    /\ ret.inner = Iter(<<source[2]>>)

\* C6: the converter maps i16::ZERO_VALUE to u16::ZERO_VALUE and u16::ZERO_VALUE to
\* i16::ZERO_VALUE.
C6_ZeroMapsToZero ==
    /\ \A i \in 1 .. Len(mid) :
           source[i] = ZERO_VALUE(enc) => mid[i] = ZERO_VALUE(Other(enc))
    /\ \A i \in 1 .. Len(yielded) :
           mid[i] = ZERO_VALUE(Other(enc)) => yielded[i] = ZERO_VALUE(enc)

\* i16 silence converted to u16 and back.
C6_Witness ==
    /\ enc = "i16"
    /\ Len(yielded) >= 1
    /\ source[1] = ZERO_VALUE("i16")
    /\ mid[1] = ZERO_VALUE("u16")

\* C7: a sample converted to the other integer encoding and back differs from the original
\* by at most 1.
C7_RoundTrip == \A i \in 1 .. Len(yielded) : Abs(yielded[i] - source[i]) <= 1

\* i16::MIN converted to u16 and back.
C7_Witness ==
    /\ enc = "i16"
    /\ Len(yielded) >= 1
    /\ source[1] = I16Min
    /\ mid[1] = 0

====
